---- MODULE Spec2Model ----
(***************************************************************************)
(* The controller side of the worker protocol of the ChatWindow component  *)
(* (src/unnamed/part_000): the React state of the component, the message    *)
(* listeners it registers on the worker, the ReadableStream that adapts     *)
(* chunk events to a pull sequence, the toast that shows progress, and the  *)
(* worker as the source of events.                                          *)
(*                                                                         *)
(* One step of the model is one task of the browser's event loop (a user    *)
(* event or one worker message dispatched to every registered listener) or  *)
(* one promise continuation (ReaderStep).  Continuations are microtasks:    *)
(* they run before the next task, which the guard ~MicrotaskPending of the  *)
(* task actions states.                                                     *)
(*                                                                         *)
(* Text is a sequence of characters, so that += is \o and the empty string  *)
(* is << >>.  A progress ratio is counted in tenths.  The two controls that *)
(* only write the message list (the "Clear all messages" button and the     *)
(* remove button of a bubble) are left out.                                 *)
(*                                                                         *)
(* Spec is the component while it is on the page; SpecUnmount adds its       *)
(* removal from the page, after which the worker and its listeners go on.  *)
(*                                                                         *)
(* src/components/ChatWindow.tsx is a second variant of the component.  Its *)
(* chat form is rendered only once readyToChat is set, readyToChat is set   *)
(* only by the listener that sendMessage installs, and its upload button    *)
(* calls embedPDF, which is defined nowhere: none of its protocol handlers  *)
(* can run, so it has no behaviour to model.                                *)
(***************************************************************************)
EXTENDS Integers, Sequences, FiniteSets, TLC

\* ---------------------------------------------------------------- bounds
MaxOps == 3         \* requests the controller posts in one run
MaxEvents == 2      \* chunk and init_progress events the worker emits in one run

\* ---------------------------------------------------------------- values
NoFile == "null"                       \* useState<File | null>(null)
Files == {"fileA"}
NoToast == 0                           \* useRef<Id | null>(null)
EmptyText == << >>
Inputs == {<<"H", "i">>}               \* what the user types into the empty field
ChunkTexts == {<<"a">>, <<"b">>}       \* e.data.data of a chunk event
ErrorTexts == {"backend crashed"}      \* e.data.error of an error event
NoError == "none"
Ratios == {2, 6}                       \* e.data.data.progress, in tenths
NoRatio == -1                          \* a toast without a progress option

VARIABLES
    worker,       \* worker.current: "null" before the mount effect, "worker" after
    mounted,      \* the component is mounted: its state can be set and its forms
                  \*   can be used
    isLoading,    \* useState(true)
    readyToChat,  \* useState(false)
    selectedPDF,  \* useState<File | null>(null)
    input,        \* useState("")
    messages,     \* useState<ChatWindowMessage[]>([])
    toastId,      \* toastId.current
    toasts,       \* the toasts whose Id the component keeps: toasts[id] is the
                  \*   toast with that Id (the other toasts are notices: they are
                  \*   shown and never referred to again, see last.notices)
    listeners,    \* the "message" listeners on the worker, in registration order
    streams,      \* one entry per handleSendMessage call that reached queryLLM:
                  \*   its ReadableStream, its reader and its local variables
    ops,          \* the requests posted to the worker, in order, and what the
                  \*   worker has emitted for each
    last          \* history: what the last step did

vars == <<worker, mounted, isLoading, readyToChat, selectedPDF, input, messages, toastId,
          toasts, listeners, streams, ops, last>>

\* ---------------------------------------------------------------- toasts
\* toast(content, { progress }) whose Id is kept: its Id is its position.
\* content is the pieces of the text, in order.
Toast(content, progress) == [content |-> content, progress |-> progress, open |-> TRUE]

\* toast(content) whose Id is dropped
Notice(content) == content

\* toast.update(id, { progress }): changes a toast that is still shown.
ToastUpdate(ts, id, progress) ==
    IF id \in 1..Len(ts) /\ ts[id].open
    THEN [ts EXCEPT ![id].progress = progress]
    ELSE ts

\* toast.dismiss(id)
ToastDismiss(ts, id) ==
    IF id \in 1..Len(ts) THEN [ts EXCEPT ![id].open = FALSE] ELSE ts

\* ---------------------------------------------------------------- messages
HumanMessage(text) == [role |-> "human", content |-> text]
AiMessage(text) == [role |-> "ai", content |-> text]

\* ---------------------------------------------------------------- streams
\* new ReadableStream({ start }) together with the variables of the
\* handleSendMessage call that reads it.
\*   state, queue, closeRequested, storedError: the stream and its controller
\*   pending: a read request of the reader is waiting
\*   resKind, resValue: the settled result of reader.read() whose continuation
\*     has not run yet ("none": nothing to run)
\*   loop: where the call is: "reading" (in the while loop), "done" (left it
\*     by break), "threw" (left it by the rejection of reader.read())
\*   base: [...messages, newMessage] as captured by the call
\*   content: aiMessage.content
\*   thrown: the message of the error the call ended with
\*   op: the request the call posted (history)
NewStream(base, op) ==
    [state |-> "readable", queue |-> << >>, closeRequested |-> FALSE,
     storedError |-> NoError, pending |-> FALSE,
     resKind |-> "none", resValue |-> EmptyText,
     loop |-> "reading", base |-> base, content |-> EmptyText,
     thrown |-> NoError, op |-> op]

\* an enqueue that only refuses a stream that is closing
EnqueueThrowsWhenClosing(st) == st.closeRequested

\* controller.enqueue(chunk) throws on a stream that is closed, errored or closing
EnqueueThrows(st) == st.state # "readable" \/ st.closeRequested

Enqueue(st, chunk) ==
    IF EnqueueThrows(st) THEN st
    ELSE IF st.pending
         THEN [st EXCEPT !.pending = FALSE, !.resKind = "value", !.resValue = chunk]
         ELSE [st EXCEPT !.queue = Append(@, chunk)]

\* controller.close() throws in the same cases
CloseThrows(st) == st.state # "readable" \/ st.closeRequested

Close(st) ==
    IF CloseThrows(st) THEN st
    ELSE IF st.queue # << >>
         THEN [st EXCEPT !.closeRequested = TRUE]
         ELSE IF st.pending
              THEN [st EXCEPT !.state = "closed", !.pending = FALSE, !.resKind = "done"]
              ELSE [st EXCEPT !.state = "closed"]

\* controller.error(e): nothing on a stream that is not readable; otherwise the
\* queue is reset and a waiting read is rejected with e
ErrorStream(st, msg) ==
    IF st.state # "readable" THEN st
    ELSE IF st.pending
         THEN [st EXCEPT !.state = "errored", !.storedError = msg, !.queue = << >>,
                         !.pending = FALSE, !.resKind = "reject"]
         ELSE [st EXCEPT !.state = "errored", !.storedError = msg, !.queue = << >>]

\* reader.read()
Read(st) ==
    IF st.queue # << >>
    THEN [st EXCEPT !.queue = Tail(@), !.resKind = "value", !.resValue = Head(st.queue),
                    !.state = IF st.closeRequested /\ Len(st.queue) = 1
                              THEN "closed" ELSE @]
    ELSE CASE st.state = "closed"  -> [st EXCEPT !.resKind = "done"]
           [] st.state = "errored" -> [st EXCEPT !.resKind = "reject"]
           [] OTHER                -> [st EXCEPT !.pending = TRUE]

\* a promise continuation is queued
MicrotaskPending == \E s \in 1..Len(streams) : streams[s].resKind # "none"

\* ---------------------------------------------------------------- events
\* e.data of a message event from the worker: { type, data, error }
Event(type, progress, text, error) ==
    [type |-> type, progress |-> progress, text |-> text, error |-> error]

InitProgressEvent(p) == Event("init_progress", p, EmptyText, NoError)
ChunkEvent(t) == Event("chunk", NoRatio, t, NoError)
CompleteEvent == Event("complete", NoRatio, EmptyText, NoError)
ErrorEvent(m) == Event("error", NoRatio, EmptyText, m)
LogEvent == Event("log", NoRatio, EmptyText, NoError)
\* an event whose type no listener has a case for
UnknownEvent == Event("status", NoRatio, EmptyText, NoError)

\* ---------------------------------------------------------------- listeners
\* A listener is the closure handed to worker.current.addEventListener: the
\* one of handlePDFUpload (kind "embed") or the one of queryLLM (kind "query",
\* closed over the controller of streams[stream]).  op is the request that was
\* posted with it (history).
EmbedSubscription(op) == [kind |-> "embed", stream |-> 0, op |-> op]
QuerySubscription(s, op) == [kind |-> "query", stream |-> s, op |-> op]

\* What the listeners of one message event read and write.
Controller ==
    [isLoading |-> isLoading, readyToChat |-> readyToChat, toastId |-> toastId,
     toasts |-> toasts, streams |-> streams, notices |-> << >>, threw |-> 0]

\* a listener whose error case reads the message from a field the event does
\* not have and leaves isLoading alone
EmbedListenerErrorUnread(c, e) ==
    CASE e.type = "init_progress" ->
           IF c.toastId = NoToast
           THEN [c EXCEPT !.toasts = Append(@, Toast(<<"Processing PDF...">>, e.progress)),
                          !.toastId = Len(c.toasts) + 1]
           ELSE [c EXCEPT !.toasts = ToastUpdate(@, c.toastId, e.progress)]
      [] e.type = "error" ->
           [c EXCEPT !.notices = Append(@, Notice(<<"Error: ", "undefined">>))]
      [] e.type = "complete" ->
           [c EXCEPT !.isLoading = FALSE,
                     !.readyToChat = TRUE,
                     !.notices = Append(@, Notice(<<"PDF processed. You can now ask questions.">>)),
                     !.toasts = IF c.toastId # NoToast THEN ToastDismiss(@, c.toastId) ELSE @]
      [] OTHER -> c

\* a listener whose switch has a default case that gives the request up
EmbedListenerDefaultFails(c, e) ==
    CASE e.type = "init_progress" ->
           IF c.toastId = NoToast
           THEN [c EXCEPT !.toasts = Append(@, Toast(<<"Processing PDF...">>, e.progress)),
                          !.toastId = Len(c.toasts) + 1]
           ELSE [c EXCEPT !.toasts = ToastUpdate(@, c.toastId, e.progress)]
      [] e.type = "error" ->
           [c EXCEPT !.isLoading = FALSE,
                     !.notices = Append(@, Notice(<<"Error: ", e.error>>))]
      [] e.type = "complete" ->
           [c EXCEPT !.isLoading = FALSE,
                     !.readyToChat = TRUE,
                     !.notices = Append(@, Notice(<<"PDF processed. You can now ask questions.">>)),
                     !.toasts = IF c.toastId # NoToast THEN ToastDismiss(@, c.toastId) ELSE @]
      [] OTHER ->
           [c EXCEPT !.isLoading = FALSE,
                     !.notices = Append(@, Notice(<<"Unknown message type">>))]

\* a listener whose error case sends the user back to the upload form
EmbedListenerErrorResets(c, e) ==
    CASE e.type = "init_progress" ->
           IF c.toastId = NoToast
           THEN [c EXCEPT !.toasts = Append(@, Toast(<<"Processing PDF...">>, e.progress)),
                          !.toastId = Len(c.toasts) + 1]
           ELSE [c EXCEPT !.toasts = ToastUpdate(@, c.toastId, e.progress)]
      [] e.type = "error" ->
           [c EXCEPT !.isLoading = FALSE,
                     !.readyToChat = FALSE,
                     !.notices = Append(@, Notice(<<"Error: ", e.error>>))]
      [] e.type = "complete" ->
           [c EXCEPT !.isLoading = FALSE,
                     !.readyToChat = TRUE,
                     !.notices = Append(@, Notice(<<"PDF processed. You can now ask questions.">>)),
                     !.toasts = IF c.toastId # NoToast THEN ToastDismiss(@, c.toastId) ELSE @]
      [] OTHER -> c

\* the switch of the listener of handlePDFUpload
EmbedListener(c, e) ==
    CASE e.type = "init_progress" ->
           IF c.toastId = NoToast
           THEN [c EXCEPT !.toasts = Append(@, Toast(<<"Processing PDF...">>, e.progress)),
                          !.toastId = Len(c.toasts) + 1]
           ELSE [c EXCEPT !.toasts = ToastUpdate(@, c.toastId, e.progress)]
      [] e.type = "error" ->
           [c EXCEPT !.isLoading = FALSE,
                     !.notices = Append(@, Notice(<<"Error: ", e.error>>))]
      [] e.type = "complete" ->
           [c EXCEPT !.isLoading = FALSE,
                     !.readyToChat = TRUE,
                     !.notices = Append(@, Notice(<<"PDF processed. You can now ask questions.">>)),
                     !.toasts = IF c.toastId # NoToast THEN ToastDismiss(@, c.toastId) ELSE @]
      [] OTHER -> c

\* the three ifs of the listener of queryLLM
QueryListener(c, s, e) ==
    CASE e.type = "chunk" ->
           IF EnqueueThrows(c.streams[s])
           THEN [c EXCEPT !.threw = @ + 1]
           ELSE [c EXCEPT !.streams[s] = Enqueue(@, e.text)]
      [] e.type = "complete" ->
           IF CloseThrows(c.streams[s])
           THEN [c EXCEPT !.threw = @ + 1]
           ELSE [c EXCEPT !.streams[s] = Close(@)]
      [] e.type = "error" ->
           [c EXCEPT !.streams[s] = ErrorStream(@, e.error)]
      [] OTHER -> c

\* worker.onmessage = l: the handler takes the place of the one before
AddEventListenerReplacing(ls, l) == <<l>>

\* worker.current.addEventListener("message", l)
AddEventListener(ls, l) == Append(ls, l)

\* a listener of request op is among ls
Subscribed(ls, op) == \E k \in 1..Len(ls) : ls[k].op = op

RunListener(c, l, e) ==
    IF l.kind = "embed" THEN EmbedListener(c, e) ELSE QueryListener(c, l.stream, e)

\* dispatching one message event: every registered listener runs, in
\* registration order; an exception in one does not stop the others
RECURSIVE DispatchFrom(_, _, _)
DispatchFrom(c, k, e) ==
    IF k > Len(listeners) THEN c
    ELSE DispatchFrom(RunListener(c, listeners[k], e), k + 1, e)

Dispatch(e) == DispatchFrom(Controller, 1, e)

\* the listeners that have a case for the event's type
Handles(l, e) ==
    IF l.kind = "embed"
    THEN e.type \in {"init_progress", "error", "complete"}
    ELSE e.type \in {"chunk", "complete", "error"}

Reactors(e) == {listeners[k].op : k \in {j \in 1..Len(listeners) : Handles(listeners[j], e)}}

\* ---------------------------------------------------------------- worker
\* A request as the worker sees it, and what it has emitted for it so far.
\*   kind, pdf, messages: the posted object, { pdf } or { messages }
\*   status: "active" until the worker has emitted its terminal event
\*   chunks, nprog, error: the chunk texts, the number of init_progress events
\*     and the error text emitted for it so far
EmbedRequest(pdf) ==
    [kind |-> "embed", pdf |-> pdf, messages |-> << >>, status |-> "active",
     chunks |-> << >>, nprog |-> 0, error |-> NoError]
QueryRequest(msgs) ==
    [kind |-> "query", pdf |-> NoFile, messages |-> msgs, status |-> "active",
     chunks |-> << >>, nprog |-> 0, error |-> NoError]

Active == {i \in 1..Len(ops) : ops[i].status = "active"}

RECURSIVE SumProg(_)
SumProg(k) == IF k = 0 THEN 0 ELSE ops[k].nprog + SumProg(k - 1)
ProgEvents == SumProg(Len(ops))

RECURSIVE SumChunks(_)
SumChunks(k) == IF k = 0 THEN 0 ELSE Len(ops[k].chunks) + SumChunks(k - 1)
ChunkEvents == SumChunks(Len(ops))

\* the history record of a step
\*   act, result: the handler that ran and how it ended
\*   op: the request it posted, or the request the event was emitted for
\*   type: the type of the event dispatched
\*   reactors: the requests whose listeners had a case for the event
\*   threw: number of listeners that ended by an exception
\*   notices: the notices shown to the user, in order
\*   heard: for a step that posted a request, whether a listener of the request
\*     was registered on the worker when postMessage ran
Did(act, result, op, type, reactors, threw, notices) ==
    [act |-> act, result |-> result, op |-> op, type |-> type,
     reactors |-> reactors, threw |-> threw, notices |-> notices, heard |-> FALSE]
DidPost(act, op, heard) ==
    [Did(act, "posted", op, "none", {}, 0, << >>) EXCEPT !.heard = heard]
Step(act, result) == Did(act, result, 0, "none", {}, 0, << >>)

\* ---------------------------------------------------------------- actions
\* a state setter of an unmounted component does nothing
SetState(new, old) == IF mounted THEN new ELSE old

Init ==
    /\ worker = "null"
    /\ mounted = FALSE
    /\ isLoading = TRUE
    /\ readyToChat = FALSE
    /\ selectedPDF = NoFile
    /\ input = EmptyText
    /\ messages = << >>
    /\ toastId = NoToast
    /\ toasts = << >>
    /\ listeners = << >>
    /\ streams = << >>
    /\ ops = << >>
    /\ last = Step("init", "none")

\* the effect of useEffect(..., []): runs once, before any user event
Mount ==
    /\ worker = "null"
    /\ worker' = "worker"
    /\ mounted' = TRUE
    /\ isLoading' = FALSE
    /\ last' = Step("other", "none")
    /\ UNCHANGED <<readyToChat, selectedPDF, input, messages, toastId, toasts,
                   listeners, streams, ops>>

\* a user event is a task: the component is mounted and no continuation waits
UserTask == mounted /\ ~MicrotaskPending

\* The component is removed from the page.  The effect of useEffect returns no
\* cleanup function, so nothing else happens: the worker is not terminated
\* and the listeners stay on it.
Unmount ==
    /\ UserTask
    /\ mounted' = FALSE
    /\ last' = Step("unmount", "none")
    /\ UNCHANGED <<worker, isLoading, readyToChat, selectedPDF, input, messages,
                   toastId, toasts, listeners, streams, ops>>

\* onChange of the file input, shown while !readyToChat: the user picks a file
SelectPDF(f) ==
    /\ UserTask
    /\ ~readyToChat
    /\ selectedPDF' = f
    /\ last' = Step("other", "none")
    /\ UNCHANGED <<worker, mounted, isLoading, readyToChat, input, messages, toastId, toasts,
                   listeners, streams, ops>>

\* onChange of the text input, shown while readyToChat
SetInput(t) ==
    /\ UserTask
    /\ readyToChat
    /\ input' = t
    /\ last' = Step("other", "none")
    /\ UNCHANGED <<worker, mounted, isLoading, readyToChat, selectedPDF, messages, toastId,
                   toasts, listeners, streams, ops>>

\* a handlePDFUpload that posts whatever is selected
NoDocumentNever == FALSE

\* if (!selectedPDF) of handlePDFUpload
NoDocument == selectedPDF = NoFile

\* handlePDFUpload: onSubmit of the upload form, shown while !readyToChat.
\* postMessage runs before addEventListener: the request is posted while the
\* listeners are still the unprimed ones.
HandlePDFUpload ==
    /\ UserTask
    /\ ~readyToChat
    /\ IF NoDocument
       THEN /\ last' = Did("upload", "rejected", 0, "none", {}, 0,
                            <<Notice(<<"Please select a PDF file.">>)>>)
            /\ UNCHANGED <<isLoading, listeners, ops>>
       ELSE /\ Len(ops) < MaxOps
            /\ isLoading' = TRUE
            /\ ops' = Append(ops, EmbedRequest(selectedPDF))
            /\ listeners' = AddEventListener(listeners, EmbedSubscription(Len(ops) + 1))
            /\ last' = DidPost("upload", Len(ops) + 1, Subscribed(listeners, Len(ops) + 1))
    /\ UNCHANGED <<worker, mounted, readyToChat, selectedPDF, input, messages, toastId, toasts,
                   streams>>

\* a handleSendMessage that does not look at the input
SendIgnoredWhileLoadingOnly == isLoading

\* if (isLoading || !input) of handleSendMessage
SendIgnored == isLoading \/ input = EmptyText

\* handleSendMessage up to its first await reader.read(), with the queryLLM
\* call it makes: onSubmit of the chat form, shown while readyToChat
HandleSendMessage ==
    /\ UserTask
    /\ readyToChat
    /\ IF SendIgnored
       THEN /\ last' = Step("send", "rejected")
            /\ UNCHANGED <<isLoading, input, messages, listeners, streams, ops>>
       ELSE \* queryLLM does not throw: worker.current is set (UserTask)
            LET base == Append(messages, HumanMessage(input))
                op == Len(ops) + 1
                s == Len(streams) + 1
            IN  /\ Len(ops) < MaxOps
                /\ input' = EmptyText
                /\ isLoading' = TRUE
                /\ ops' = Append(ops, QueryRequest(base))
                /\ listeners' = AddEventListener(listeners, QuerySubscription(s, op))
                /\ streams' = Append(streams, Read(NewStream(base, op)))
                /\ messages' = Append(base, AiMessage(EmptyText))
                /\ last' = DidPost("send", op, Subscribed(listeners, op))
    /\ UNCHANGED <<worker, mounted, readyToChat, selectedPDF, toastId, toasts>>

\* the body of the while loop of handleSendMessage after await reader.read(),
\* and the finally block when the loop is left
ReaderStep(s) ==
    /\ s \in 1..Len(streams)
    /\ streams[s].resKind # "none"
    /\ LET st == [streams[s] EXCEPT !.resKind = "none", !.resValue = EmptyText]
       IN  CASE streams[s].resKind = "value" ->
                  LET content == st.content \o streams[s].resValue
                  IN  /\ streams' = [streams EXCEPT ![s] = Read([st EXCEPT !.content = content])]
                      /\ messages' = SetState(Append(st.base, AiMessage(content)), messages)
                      /\ UNCHANGED isLoading
             [] streams[s].resKind = "done" ->
                  /\ streams' = [streams EXCEPT ![s] = [st EXCEPT !.loop = "done"]]
                  /\ isLoading' = SetState(FALSE, isLoading)
                  /\ UNCHANGED messages
             [] OTHER ->
                  /\ streams' = [streams EXCEPT
                                   ![s] = [st EXCEPT !.loop = "threw", !.thrown = st.storedError]]
                  /\ isLoading' = SetState(FALSE, isLoading)
                  /\ UNCHANGED messages
    /\ last' = Did("reader", streams[s].resKind, streams[s].op, "none", {}, 0, << >>)
    /\ UNCHANGED <<worker, mounted, readyToChat, selectedPDF, input, toastId, toasts,
                   listeners, ops>>

\* a delivery that posts the request again when its error event arrives
DeliverRetrying(i, e) ==
    /\ worker # "null"
    /\ ~MicrotaskPending
    /\ i \in Active
    /\ \E c \in {Dispatch(e)} :
           /\ isLoading' = SetState(c.isLoading, isLoading)
           /\ readyToChat' = SetState(c.readyToChat, readyToChat)
           /\ toastId' = c.toastId
           /\ toasts' = c.toasts
           /\ streams' = c.streams
           /\ last' = Did("event", "none", i, e.type, Reactors(e), c.threw, c.notices)
    /\ LET emitted == [ops EXCEPT ![i] =
                 CASE e.type = "chunk" -> [@ EXCEPT !.chunks = Append(@, e.text)]
                   [] e.type = "init_progress" -> [@ EXCEPT !.nprog = @ + 1]
                   [] e.type = "complete" -> [@ EXCEPT !.status = "complete"]
                   [] e.type = "error" -> [@ EXCEPT !.status = "error", !.error = e.error]
                   [] OTHER -> @]
       IN  ops' = IF e.type = "error" /\ Len(ops) < MaxOps
                  THEN Append(emitted, [ops[i] EXCEPT !.chunks = << >>, !.nprog = 0])
                  ELSE emitted
    /\ UNCHANGED <<worker, mounted, selectedPDF, input, messages, listeners>>

\* One message event from the worker, emitted for request i and dispatched to
\* the listeners.  The worker emits events for a request until its terminal
\* event; the channel keeps their order.
Deliver(i, e) ==
    /\ worker # "null"
    /\ ~MicrotaskPending
    /\ i \in Active
    /\ \E c \in {Dispatch(e)} :
           /\ isLoading' = SetState(c.isLoading, isLoading)
           /\ readyToChat' = SetState(c.readyToChat, readyToChat)
           /\ toastId' = c.toastId
           /\ toasts' = c.toasts
           /\ streams' = c.streams
           /\ last' = Did("event", "none", i, e.type, Reactors(e), c.threw, c.notices)
    /\ ops' = [ops EXCEPT ![i] =
                 CASE e.type = "chunk" -> [@ EXCEPT !.chunks = Append(@, e.text)]
                   [] e.type = "init_progress" -> [@ EXCEPT !.nprog = @ + 1]
                   [] e.type = "complete" -> [@ EXCEPT !.status = "complete"]
                   [] e.type = "error" -> [@ EXCEPT !.status = "error", !.error = e.error]
                   [] OTHER -> @]
    /\ UNCHANGED <<worker, mounted, selectedPDF, input, messages, listeners>>

WorkerInitProgress(i, p) ==
    /\ i \in Active
    /\ ProgEvents + ChunkEvents < MaxEvents
    /\ Deliver(i, InitProgressEvent(p))

WorkerChunk(i, t) ==
    /\ i \in Active
    /\ ops[i].kind = "query"
    /\ ProgEvents + ChunkEvents < MaxEvents
    /\ Deliver(i, ChunkEvent(t))

WorkerComplete(i) == Deliver(i, CompleteEvent)

WorkerError(i, m) == Deliver(i, ErrorEvent(m))

WorkerLog(i) == Deliver(i, LogEvent)

WorkerUnknown(i) == Deliver(i, UnknownEvent)

Next ==
    \/ Mount
    \/ \E f \in Files : SelectPDF(f)
    \/ \E t \in Inputs : SetInput(t)
    \/ HandlePDFUpload
    \/ HandleSendMessage
    \/ \E s \in 1..Len(streams) : ReaderStep(s)
    \/ \E i \in 1..Len(ops), p \in Ratios : WorkerInitProgress(i, p)
    \/ \E i \in 1..Len(ops), t \in ChunkTexts : WorkerChunk(i, t)
    \/ \E i \in 1..Len(ops) : WorkerComplete(i)
    \/ \E i \in 1..Len(ops), m \in ErrorTexts : WorkerError(i, m)
    \/ \E i \in 1..Len(ops) : WorkerLog(i)
    \/ \E i \in 1..Len(ops) : WorkerUnknown(i)

Spec == Init /\ [][Next]_vars

\* the same component when it can also be removed from the page
NextUnmount == Next \/ Unmount

SpecUnmount == Init /\ [][NextUnmount]_vars

\* ---------------------------------------------------------------- properties
\* c1 ++ ... ++ cn
RECURSIVE Concat(_)
Concat(texts) == IF texts = << >> THEN EmptyText ELSE Head(texts) \o Concat(Tail(texts))

\* the step just taken dispatched a worker event
EventStep == last.act = "event"

\* every continuation of the last task has run
Settled == ~MicrotaskPending

\* C1: at most one request posted to the worker is without its terminal event.
C1_AtMostOneActive == Cardinality(Active) <= 1

\* C2: an event is delivered to the subscriber of the active request only; in
\* particular an event emitted for a query makes no listener react but the one
\* that query registered (not the listener of the embed before it).
C2_OnlyActiveSubscriberReacts ==
    (EventStep /\ ops[last.op].kind = "query") => last.reactors \subseteq {last.op}

\* C3: the worker carries exactly one message listener while one request is
\* active, and none while no request is active.
C3_SubscriptionsMatchActive ==
    /\ Active = {} => Len(listeners) = 0
    /\ Cardinality(Active) = 1 => Len(listeners) = 1

\* C4: once the worker has emitted chunks c1..cn and then complete for a query,
\* and the reader has run, the ai message of that query is c1 ++ ... ++ cn, in
\* the reader's variable and in the message list.
C4_ContentIsConcatenation ==
    \A s \in 1..Len(streams) :
        (Settled /\ ops[streams[s].op].status = "complete") =>
            /\ streams[s].loop = "done"
            /\ streams[s].content = Concat(ops[streams[s].op].chunks)
            /\ Len(messages) > Len(streams[s].base)
            /\ messages[Len(streams[s].base) + 1] = AiMessage(Concat(ops[streams[s].op].chunks))

\* C5: a query is posted only while no embed request is active, and only after
\* an embed request has completed.
C5_NoQueryWhileEmbedding ==
    (last.act = "send" /\ last.result = "posted") =>
        /\ ops[last.op].kind = "query"
        /\ \A i \in 1..Len(ops) : ops[i].kind = "embed" => ops[i].status # "active"
        /\ \E i \in 1..Len(ops) : ops[i].kind = "embed" /\ ops[i].status = "complete"

\* C6: an upload submitted while no document is selected shows a notice, posts
\* nothing, registers no listener and changes neither isLoading nor
\* readyToChat nor any other state of the component.
C6_NoDocumentRejected ==
    [][(last'.act = "upload" /\ selectedPDF = NoFile) =>
          /\ last'.notices = <<Notice(<<"Please select a PDF file.">>)>>
          /\ ops' = ops
          /\ listeners' = listeners
          /\ isLoading' = isLoading
          /\ readyToChat' = readyToChat
          /\ UNCHANGED <<worker, mounted, selectedPDF, input, messages, toastId, toasts, streams>>]_vars

\* C6 happens: an upload was submitted with no document, in Idle.
C6_Witness ==
    /\ last.act = "upload"
    /\ last.result = "rejected"
    /\ selectedPDF = NoFile
    /\ ~isLoading
    /\ ~readyToChat
    /\ ops = << >>

\* C7: a query submitted with an empty input posts nothing, registers no
\* listener, appends no message and leaves isLoading as it was.
C7_EmptyInputRejected ==
    [][(last'.act = "send" /\ input = EmptyText) =>
          /\ ops' = ops
          /\ listeners' = listeners
          /\ streams' = streams
          /\ messages' = messages
          /\ isLoading' = isLoading
          /\ last'.notices = << >>
          /\ UNCHANGED <<worker, mounted, readyToChat, selectedPDF, input, toastId, toasts>>]_vars

\* C7 happens: an empty query was submitted while a submit would be accepted,
\* after an earlier query was answered.
C7_Witness ==
    /\ last.act = "send"
    /\ last.result = "rejected"
    /\ input = EmptyText
    /\ ~isLoading
    /\ messages # << >>

\* C8: once the worker has emitted chunks c1..ck and then error m for a query,
\* and the reader has run, the ai message is c1 ++ ... ++ ck, the call ended by
\* the error m, the component is not loading; and the step that dispatches the
\* error shows a notice with m.
C8_ErrorKeepsContent ==
    /\ \A s \in 1..Len(streams) :
          (Settled /\ ops[streams[s].op].status = "error") =>
              /\ streams[s].content = Concat(ops[streams[s].op].chunks)
              /\ Len(messages) > Len(streams[s].base)
              /\ messages[Len(streams[s].base) + 1] = AiMessage(Concat(ops[streams[s].op].chunks))
              /\ streams[s].loop = "threw"
              /\ streams[s].thrown = ops[streams[s].op].error
    /\ (EventStep /\ last.type = "error" /\ ops[last.op].kind = "query") =>
          \E n \in 1..Len(last.notices) : last.notices[n] = Notice(<<"Error: ", ops[last.op].error>>)
    /\ (Settled /\ EventStep /\ last.type = "error" /\ ops[last.op].kind = "query") => ~isLoading

\* the progress the slot shows; NoRatio while there is no slot
SlotProgress == IF toastId = NoToast THEN NoRatio ELSE toasts[toastId].progress

\* C9: while a request is being served, an init_progress event of that request
\* never lowers the progress held by the slot.
C9_ProgressNeverRegresses ==
    [][(last'.act = "event" /\ last'.type = "init_progress" /\ toastId # NoToast
          /\ ops[last'.op].nprog > 0) =>
          SlotProgress' >= SlotProgress]_vars

\* C10: the terminal event of a request clears the slot reference, so the slot
\* is empty whenever no request is active.
C10_SlotClearedOnTerminal ==
    /\ (EventStep /\ last.type \in {"complete", "error"}) => toastId = NoToast
    /\ Active = {} => toastId = NoToast

\* ---------------------------------------------------------------- C11
\* C11: every error event the worker emits, whatever the controller is doing
\* (embedding, waiting for the first fragment of a query, streaming, several
\* requests in flight), leaves the controller not busy and shows the user a
\* notice that carries the text of the event's error field.
ErrorNotice(m) == Notice(<<"Error: ", m>>)

C11_ErrorReleasesAndNotifies ==
    (EventStep /\ last.type = "error") =>
        /\ ~isLoading
        /\ \E n \in 1..Len(last.notices) : last.notices[n] = ErrorNotice(ops[last.op].error)

\* an error event of a query that has already delivered a fragment
C11_Witness ==
    /\ EventStep
    /\ last.type = "error"
    /\ ops[last.op].kind = "query"
    /\ ops[last.op].chunks # << >>
    /\ ops[last.op].error \in ErrorTexts

\* ---------------------------------------------------------------- C13
\* C13 as written: when a request is posted, its subscription is already
\* registered on the worker.
C13_SubscribedBeforePost == (last.result = "posted") => last.heard

\* C13, amended: the subscription of a request is registered in the task that
\* posts it, so at every point where a message event can be dispatched each
\* request that still awaits events has a listener registered for it: no
\* event of a request arrives while the request has no subscription.
C13_SubscribedWhenDelivered == \A i \in Active : Subscribed(listeners, i)

\* the first event of a query is delivered, and the query has its listener
C13_Witness ==
    /\ EventStep
    /\ last.type = "chunk"
    /\ Len(ops[last.op].chunks) = 1
    /\ Subscribed(listeners, last.op)
    /\ last.op \in last.reactors

\* ---------------------------------------------------------------- C14
\* C14: once the fragment sequence of a query has ended with the complete
\* event (the loop of handleSendMessage was left by break), no step changes
\* it again: its stream takes no further fragment, its reader is handed
\* nothing, the content of its ai message and the message itself in the list
\* stay as they are, whatever events (chunk events among them) arrive later.
AiIndex(s) == Len(streams[s].base) + 1

C14_EndedSequenceIsFrozen ==
    [][\A s \in 1..Len(streams) :
          streams[s].loop = "done" =>
              /\ streams'[s] = streams[s]
              /\ Len(messages') >= AiIndex(s)
              /\ messages'[AiIndex(s)] = AiMessage(streams[s].content)]_vars

\* a chunk event arrives after the complete event of a query was processed:
\* the listener of the ended query runs and its enqueue is refused
C14_Witness ==
    /\ EventStep
    /\ last.type = "chunk"
    /\ last.threw > 0
    /\ \E s \in 1..Len(streams) :
          /\ streams[s].loop = "done"
          /\ ops[streams[s].op].status = "complete"
          /\ streams[s].op # last.op
          /\ streams[s].content # EmptyText

C16_BusyUntilTerminal ==
    /\ (Active # {}) => isLoading
    /\ (EventStep /\ last.type \in {"complete", "error"} /\ Active = {}) => ~isLoading
    /\ (EventStep /\ last.type = "complete") => readyToChat

\* ---------------------------------------------------------------- C17
\* C17: an event whose type is none of init_progress, chunk, complete, error
\* (a log event, or an event of a type nobody knows) changes nothing: no
\* listener has a case for it, the busy and ready flags, the message list,
\* the progress toast, the listeners, the streams and the status of the
\* requests stay as they are and nothing is shown.  A chunk event is a known
\* event: the listener of the query it was emitted for has a case for it.
RecognizedTypes == {"init_progress", "chunk", "complete", "error"}

C17_UnrecognizedChangesNothing ==
    [][last'.act = "event" =>
          /\ last'.type \notin RecognizedTypes =>
                /\ UNCHANGED <<worker, mounted, isLoading, readyToChat, selectedPDF, input, messages,
                               toastId, toasts, listeners, streams, ops>>
                /\ last'.reactors = {}
                /\ last'.notices = << >>
                /\ last'.threw = 0
          /\ last'.type = "chunk" => last'.op \in last'.reactors]_vars

\* an event of an unknown type arrives while a query is streaming
C17_Witness ==
    /\ EventStep
    /\ last.type = UnknownEvent.type
    /\ last.type \notin RecognizedTypes \cup {LogEvent.type}
    /\ ops[last.op].kind = "query"
    /\ ops[last.op].status = "active"
    /\ ops[last.op].chunks # << >>
    /\ isLoading

\* ---------------------------------------------------------------- C18
\* C18: once the component has been removed from the page (its teardown) the
\* worker is terminated and no listener is left on it, so no event of the
\* worker is handled by any listener afterwards, and no request is posted.
Unmounted == worker # "null" /\ ~mounted

C18_TeardownReleases ==
    Unmounted =>
        /\ listeners = << >>
        /\ EventStep => last.reactors = {}
        /\ last.result # "posted"

\* ---------------------------------------------------------------- C19
\* C19: readyToChat never goes back to false; from the first complete event
\* on, the upload form is not offered, handlePDFUpload does not run and the
\* only requests posted are queries.
C19_ReadyIsMonotonic ==
    [][readyToChat =>
          /\ readyToChat'
          /\ last'.act # "upload"
          /\ \A i \in (Len(ops) + 1)..Len(ops') : ops'[i].kind = "query"]_vars

\* the error event of a query arrives after the document was embedded, and
\* the chat form stays
C19_Witness ==
    /\ readyToChat
    /\ EventStep
    /\ last.type = "error"
    /\ ops[last.op].kind = "query"
    /\ \E i \in 1..Len(ops) : ops[i].kind = "embed" /\ ops[i].status = "complete"

\* ---------------------------------------------------------------- C20
\* C20: a query for which the worker emits complete without any chunk ends
\* normally: its sequence ends by done and not by an exception, its ai message
\* stands right after its human message with empty content, and when its
\* loop has been left the ai message is the last of the list and the
\* controller is not busy.
C20_EmptyAnswerEndsNormally ==
    \A s \in 1..Len(streams) :
        (Settled /\ ops[streams[s].op].status = "complete"
                 /\ ops[streams[s].op].chunks = << >>) =>
            /\ streams[s].loop = "done"
            /\ streams[s].thrown = NoError
            /\ streams[s].content = EmptyText
            /\ Len(messages) >= AiIndex(s)
            /\ messages[AiIndex(s)] = AiMessage(EmptyText)
            /\ messages[AiIndex(s) - 1].role = "human"
            /\ (last.act = "reader" /\ last.op = streams[s].op) =>
                   (~isLoading /\ Len(messages) = AiIndex(s))

====
